---- MODULE Spec2Model ----
(***************************************************************************)
(* Model of streamlit_app.py: the DCA comparison tool.                     *)
(*                                                                         *)
(* Dates are whole days counted from Monday 2020-01-27 (day 0), so that    *)
(* d % 7 = 0 is a Monday and the month ends are the days of MonthEnds.     *)
(* A float64 value is the pair <<n, d>>: the rational n/d in lowest terms  *)
(* when d > 0, +inf = <<1, 0>>, -inf = <<-1, 0>>, NaN = <<0, 0>>.          *)
(***************************************************************************)
EXTENDS Integers, Sequences, FiniteSets, TLC

(* ---------------------------- bounds ---------------------------------- *)
MaxDay == 8
MaxStart == 1
MaxObs == 2
MaxFetchObs == 1
MaxPrice == 1
MaxSelected == 2
MaxAmountSteps == 1

(* ------------------------ program constants --------------------------- *)
MinAmount == 10
WeekDays == 7
MonthDays == 30
Hundred == 100

AssetOrder == <<"Bitcoin", "MSTR", "S&P 500", "Gold", "Cash", "Russell 3000">>

ASSET_MAPPINGS ==
    [a \in {AssetOrder[k] : k \in 1..Len(AssetOrder)} |->
        CASE a = "Bitcoin" -> "BTC-USD"
          [] a = "MSTR" -> "MSTR"
          [] a = "S&P 500" -> "^GSPC"
          [] a = "Gold" -> "GC=F"
          [] a = "Cash" -> "USD"
          [] a = "Russell 3000" -> "^RUA"]

Assets == DOMAIN ASSET_MAPPINGS

Frequencies == {"Weekly", "Monthly"}

Amounts == {MinAmount * k : k \in 1..MaxAmountSteps}

(* month ends of 2020 as day numbers: Jan 31, Feb 29, Mar 31, Apr 30 *)
MonthEnds == {4, 33, 64, 94}

(* ------------------------- float64 values ----------------------------- *)
NaN == <<0, 0>>
PosInf == <<1, 0>>
Zero == <<0, 1>>
One == <<1, 1>>

Abs(n) == IF n < 0 THEN -n ELSE n

Sgn(n) == IF n > 0 THEN 1 ELSE IF n < 0 THEN -1 ELSE 0

RECURSIVE GCD(_, _)
GCD(a, b) == IF b = 0 THEN a ELSE GCD(b, a % b)

Norm(n, d) ==
    IF d = 0 THEN <<Sgn(n), 0>>
    ELSE LET g == GCD(Abs(n), Abs(d))
         IN  <<(Sgn(d) * n) \div g, Abs(d) \div g>>

Num(n) == <<n, 1>>

IsNaN(x) == x = NaN

IsFinite(x) == x[2] > 0

FNeg(x) == <<-x[1], x[2]>>

FAdd(x, y) ==
    IF x[2] = 0 /\ y[2] = 0
    THEN IF x = y THEN x ELSE NaN
    ELSE Norm(x[1] * y[2] + y[1] * x[2], x[2] * y[2])

FSub(x, y) == FAdd(x, FNeg(y))

FMul(x, y) == Norm(x[1] * y[1], x[2] * y[2])

FDiv(x, y) == Norm(x[1] * y[2], x[2] * y[1])

(* IEEE comparisons: every comparison with NaN is false *)
FGe(x, y) == ~IsNaN(x) /\ ~IsNaN(y) /\ x[1] * y[2] >= y[1] * x[2]

FGt(x, y) == ~IsNaN(x) /\ ~IsNaN(y) /\ x[1] * y[2] > y[1] * x[2]

(* --------------------------- data frames ------------------------------ *)
SetMin(S) == CHOOSE x \in S : \A y \in S : x <= y

SetMax(S) == CHOOSE x \in S : \A y \in S : x >= y

PriceVals == {Num(p) : p \in 0..MaxPrice}

(* the dates of a Close series or of a frame: at most maxobs days of *)
(* [start, end]                                                      *)
IndexSet(start, end, maxobs) ==
    {x \in SUBSET (start..end) : Cardinality(x) <= maxobs}

EmptyFrame == [index |-> {}, columns |-> <<>>]

(* pd.DataFrame(data): the columns are aligned on the union of the indexes *)
DataFrame(dict) ==
    LET idx == UNION {DOMAIN dict[t] : t \in DOMAIN dict}
    IN  [index |-> idx,
         columns |-> [t \in DOMAIN dict |->
                        [d \in idx |-> IF d \in DOMAIN dict[t]
                                       THEN dict[t][d] ELSE NaN]]]

IsEmptyFrame(frame) == frame.index = {} \/ DOMAIN frame.columns = {}

(* ----------------------------- resample ------------------------------- *)
WeekLabel(d) == d + ((7 - (d % 7)) % 7)

MonthLabel(d) == SetMin({m \in MonthEnds : m >= d})

Label(frequency, d) ==
    IF frequency = "Weekly" THEN WeekLabel(d) ELSE MonthLabel(d)

RECURSIVE SortedSeq(_)
SortedSeq(S) ==
    IF S = {} THEN <<>> ELSE <<SetMin(S)>> \o SortedSeq(S \ {SetMin(S)})

(* the bin labels: every bin from the first to the last date of the index *)
Labels(frequency, index) ==
    IF index = {} THEN <<>>
    ELSE LET lo == Label(frequency, SetMin(index))
             hi == Label(frequency, SetMax(index))
         IN  IF frequency = "Weekly"
             THEN [k \in 1..((hi - lo) \div 7 + 1) |-> lo + 7 * (k - 1)]
             ELSE SortedSeq({m \in MonthEnds : lo <= m /\ m <= hi})

Bucket(frequency, index, label) ==
    {d \in index : Label(frequency, d) = label}

RECURSIVE FSum(_, _)
FSum(col, S) ==
    IF S = {} THEN Zero
    ELSE LET d == CHOOSE x \in S : TRUE
         IN  FAdd(col[d], FSum(col, S \ {d}))

(* mean of the non-NaN cells of a bin; NaN for a bin without any *)
Mean(col, bucket) ==
    LET obs == {d \in bucket : ~IsNaN(col[d])}
    IN  FDiv(FSum(col, obs), Num(Cardinality(obs)))

(* ---------------------------- calculate_dca --------------------------- *)
(* the operands of the division exchanged *)
SharesSwapped(amount, price) == FDiv(price, Num(amount))

Shares(amount, price) == FDiv(Num(amount), price)

(* Series.cumsum(): NaN entries are skipped by the running sum and stay NaN *)
Cumsum(xs) ==
    LET acc[k \in 0..Len(xs)] ==
            IF k = 0 THEN Zero
            ELSE IF IsNaN(xs[k]) THEN acc[k - 1]
            ELSE FAdd(acc[k - 1], xs[k])
    IN  [k \in 1..Len(xs) |-> IF IsNaN(xs[k]) THEN NaN ELSE acc[k]]

PeriodDays(frequency) == IF frequency = "Weekly" THEN WeekDays ELSE MonthDays

Total_Invested(amount, frequency, label, start_date) ==
    Num(amount * ((label - start_date) \div PeriodDays(frequency)))

(* the cash case forgotten: every asset is marked to market *)
Portfolio_ValueNoCash(ticker, total_invested, cumulative_shares, price) ==
    FMul(cumulative_shares, price)

Portfolio_Value(ticker, total_invested, cumulative_shares, price) ==
    IF ticker = "USD" THEN total_invested
    ELSE FMul(cumulative_shares, price)

SourceFrame(ticker, data, start_date, end_date) ==
    IF ticker = "USD"
    THEN [index |-> start_date..end_date,
          col |-> [d \in start_date..end_date |-> One]]
    ELSE [index |-> data.index, col |-> data.columns[ticker]]

calculate_dca(asset, ticker, data, amount, frequency, start_date, end_date) ==
    LET df == SourceFrame(ticker, data, start_date, end_date)
        labels == Labels(frequency, df.index)
        price == [k \in 1..Len(labels) |->
                    Mean(df.col, Bucket(frequency, df.index, labels[k]))]
        shares == [k \in 1..Len(labels) |-> Shares(amount, price[k])]
        cum == Cumsum(shares)
    IN  [k \in 1..Len(labels) |->
          LET ti == Total_Invested(amount, frequency, labels[k], start_date)
          IN  [period_end |-> labels[k],
               Price |-> price[k],
               Shares |-> shares[k],
               Cumulative_Shares |-> cum[k],
               Total_Invested |-> ti,
               Portfolio_Value |->
                   Portfolio_Value(ticker, ti, cum[k], price[k])]]

(* ------------------------------- main --------------------------------- *)
SummaryRow(df) ==
    LET final_value == df[Len(df)].Portfolio_Value
        total_invested == df[Len(df)].Total_Invested
    IN  [Final_Value |-> final_value,
         Total_Invested |-> total_invested,
         Gain |-> FSub(final_value, total_invested),
         ROI |-> FMul(FSub(FDiv(final_value, total_invested), One),
                      Num(Hundred))]

VARIABLES pc, selected_assets, start_date, end_date, investment_amount,
          frequency, fetched, errors, data, results, summary_data, i,
          exception

vars == <<pc, selected_assets, start_date, end_date, investment_amount,
          frequency, fetched, errors, data, results, summary_data, i,
          exception>>

inputs == <<selected_assets, start_date, end_date, investment_amount,
            frequency>>

Tickers == [k \in 1..Len(selected_assets) |-> ASSET_MAPPINGS[selected_assets[k]]]

TickerSet == {Tickers[k] : k \in 1..Len(selected_assets)}

(* the checked boxes, in the order of ASSET_MAPPINGS *)
Selection(S) ==
    LET F[k \in 0..Len(AssetOrder)] ==
            IF k = 0 THEN <<>>
            ELSE IF AssetOrder[k] \in S THEN Append(F[k - 1], AssetOrder[k])
            ELSE F[k - 1]
    IN  F[Len(AssetOrder)]

Init ==
    /\ pc = "select"
    /\ \E S \in {x \in SUBSET Assets : Cardinality(x) <= MaxSelected} :
          selected_assets = Selection(S)
    /\ start_date \in 0..MaxStart
    /\ end_date \in (start_date + 1)..MaxDay
    /\ investment_amount \in Amounts
    /\ frequency \in Frequencies
    /\ fetched = <<>>
    /\ errors = {}
    /\ data = EmptyFrame
    /\ results = <<>>
    /\ summary_data = <<>>
    /\ i = 1
    /\ exception = "none"

(* main, lines 98-106: nothing selected ends the run with a warning *)
Select ==
    /\ pc = "select"
    /\ pc' = IF selected_assets = <<>> THEN "warned" ELSE "fetch"
    /\ UNCHANGED <<inputs, fetched, errors, data, results, summary_data, i,
                   exception>>

(* fetch_stock_data: one iteration of the loop over tickers *)
FetchSkipUSD ==
    /\ pc = "fetch"
    /\ i <= Len(selected_assets)
    /\ Tickers[i] = "USD"
    /\ i' = i + 1
    /\ UNCHANGED <<pc, inputs, fetched, errors, data, results, summary_data,
                   exception>>

FetchOk ==
    /\ pc = "fetch"
    /\ i <= Len(selected_assets)
    /\ Tickers[i] # "USD"
    /\ \E ds \in IndexSet(start_date, end_date, MaxFetchObs) :
       \E close \in [ds -> PriceVals] :
          fetched' = [t \in DOMAIN fetched \cup {Tickers[i]} |->
                         IF t = Tickers[i] THEN close ELSE fetched[t]]
    /\ i' = i + 1
    /\ UNCHANGED <<pc, inputs, errors, data, results, summary_data, exception>>

FetchError ==
    /\ pc = "fetch"
    /\ i <= Len(selected_assets)
    /\ Tickers[i] # "USD"
    /\ errors' = errors \cup {Tickers[i]}
    /\ i' = i + 1
    /\ UNCHANGED <<pc, inputs, fetched, data, results, summary_data, exception>>

(* return pd.DataFrame(data), then the test of line 141 *)
FetchReturn ==
    /\ pc = "fetch"
    /\ i > Len(selected_assets)
    /\ data' = DataFrame(fetched)
    /\ pc' = IF ~IsEmptyFrame(DataFrame(fetched)) \/ "USD" \in TickerSet
             THEN "calc" ELSE "done"
    /\ i' = 1
    /\ UNCHANGED <<inputs, fetched, errors, results, summary_data, exception>>

(* lines 144-149: one iteration; data[[ticker]] raises KeyError for a *)
(* ticker that is not a column of data                                 *)
CalcAsset ==
    /\ pc = "calc"
    /\ i <= Len(selected_assets)
    /\ LET asset == selected_assets[i]
           ticker == ASSET_MAPPINGS[asset]
       IN  IF ticker # "USD" /\ ticker \notin DOMAIN data.columns
           THEN /\ exception' = "KeyError"
                /\ pc' = "crashed"
                /\ UNCHANGED <<results, i>>
           ELSE /\ results' =
                     [a \in DOMAIN results \cup {asset} |->
                        IF a = asset
                        THEN calculate_dca(asset, ticker, data,
                                           investment_amount, frequency,
                                           start_date, end_date)
                        ELSE results[a]]
                /\ i' = i + 1
                /\ UNCHANGED <<pc, exception>>
    /\ UNCHANGED <<inputs, fetched, errors, data, summary_data>>

CalcDone ==
    /\ pc = "calc"
    /\ i > Len(selected_assets)
    /\ pc' = "summary"
    /\ i' = 1
    /\ UNCHANGED <<inputs, fetched, errors, data, results, summary_data,
                   exception>>

(* lines 212-220: one iteration; iloc[-1] raises IndexError on no rows *)
SummaryAsset ==
    /\ pc = "summary"
    /\ i <= Len(selected_assets)
    /\ LET asset == selected_assets[i]
           df == results[asset]
       IN  IF Len(df) = 0
           THEN /\ exception' = "IndexError"
                /\ pc' = "crashed"
                /\ UNCHANGED <<summary_data, i>>
           ELSE /\ summary_data' =
                     [a \in DOMAIN summary_data \cup {asset} |->
                        IF a = asset THEN SummaryRow(df) ELSE summary_data[a]]
                /\ i' = i + 1
                /\ UNCHANGED <<pc, exception>>
    /\ UNCHANGED <<inputs, fetched, errors, data, results>>

SummaryDone ==
    /\ pc = "summary"
    /\ i > Len(selected_assets)
    /\ pc' = "done"
    /\ UNCHANGED <<inputs, fetched, errors, data, results, summary_data, i,
                   exception>>

Next ==
    \/ Select
    \/ FetchSkipUSD
    \/ FetchOk
    \/ FetchError
    \/ FetchReturn
    \/ CalcAsset
    \/ CalcDone
    \/ SummaryAsset
    \/ SummaryDone

Spec == Init /\ [][Next]_vars

(* ----------------- calculate_dca called on its own -------------------- *)
DcaAssets == {"Bitcoin", "Cash"}

(* the frames a caller can hand to calculate_dca for one ticker: the index *)
(* may hold dates of other symbols, where this ticker's cell is NaN        *)
InitDca ==
    /\ pc = "calc"
    /\ \E a \in DcaAssets : selected_assets = <<a>>
    /\ start_date \in 0..MaxStart
    /\ end_date \in start_date..MaxDay
    /\ investment_amount \in Amounts
    /\ frequency \in Frequencies
    /\ fetched = <<>>
    /\ errors = {}
    /\ IF selected_assets[1] = "Cash"
       THEN data = EmptyFrame
       ELSE \E idx \in IndexSet(start_date, end_date, MaxObs) :
               \E col \in [idx -> PriceVals \cup {NaN}] :
                  data = [index |-> idx,
                          columns |->
                             [t \in {ASSET_MAPPINGS[selected_assets[1]]}
                                 |-> col]]
    /\ results = <<>>
    /\ summary_data = <<>>
    /\ i = 1
    /\ exception = "none"

NextDca == CalcAsset

SpecDca == InitDca /\ [][NextDca]_vars

(* ======================= properties of a run of main ================== *)
Terminated == pc \in {"done", "crashed", "warned"}

HasObservations(ticker) ==
    ticker \in DOMAIN fetched /\ DOMAIN fetched[ticker] # {}

(* C1: a run of main ends without an uncaught exception, its output mapping *)
(* has no entry for a symbol whose fetch failed, and it has a trajectory    *)
(* for Cash and for every selected asset whose fetch returned prices.       *)
C1_FetchFailureIsolated ==
    Terminated =>
        /\ exception = "none"
        /\ \A k \in 1..Len(selected_assets) :
              LET asset == selected_assets[k]
                  ticker == ASSET_MAPPINGS[asset]
              IN  /\ ticker \in errors => asset \notin DOMAIN results
                  /\ (ticker = "USD" \/ HasObservations(ticker))
                        => asset \in DOMAIN results

(* C4: the ROI (%) of the summary row of Cash is exactly 0, also when the *)
(* last record's Total_Invested is 0.                                     *)
C4_CashRoiIsZero ==
    "Cash" \in DOMAIN summary_data => summary_data["Cash"].ROI = Zero

WindowTooShort ==
    end_date - start_date < (IF frequency = "Weekly" THEN 7 ELSE 28)

(* C5: when the window spans less than one cadence period every trajectory *)
(* calculate_dca returns is empty and main computes no summary row.        *)
C5_ShortWindowIsEmpty ==
    WindowTooShort =>
        /\ \A a \in DOMAIN results : Len(results[a]) = 0
        /\ DOMAIN summary_data = {}

(* the explicit "not applicable" ROI result: no float64 value *)
NotApplicable == <<>>

(* C6: a summary row whose Total Invested is 0 carries the explicit "not  *)
(* applicable" ROI, never the infinity or NaN of a division by zero.      *)
C6_ZeroInvestedRoiNotApplicable ==
    \A a \in DOMAIN summary_data :
        summary_data[a].Total_Invested = Zero
            => summary_data[a].ROI = NotApplicable

(* ===================== properties of calculate_dca ==================== *)
PricedResults == {a \in DOMAIN results : ASSET_MAPPINGS[a] # "USD"}

Column(a) == data.columns[ASSET_MAPPINGS[a]]

Observed(a) == {d \in data.index : ~IsNaN(Column(a)[d])}

(* priced assets with a trajectory and at least one price observation *)
ObservedResults == {a \in PricedResults : Observed(a) # {}}

(* C2: the k-th record of a Cash trajectory has Total_Invested = amount * k *)
C2_CashInvestedIsAmountTimesIndex ==
    "Cash" \in DOMAIN results =>
        \A k \in 1..Len(results["Cash"]) :
            results["Cash"][k].Total_Invested = Num(investment_amount * k)

(* C3: in every record of a Cash trajectory Portfolio_Value equals          *)
(* Total_Invested, whatever Cumulative_Shares is.                           *)
C3_CashValueEqualsInvested ==
    "Cash" \in DOMAIN results =>
        \A k \in 1..Len(results["Cash"]) :
            results["Cash"][k].Portfolio_Value
                = results["Cash"][k].Total_Invested

C3_Witness ==
    /\ "Cash" \in DOMAIN results
    /\ Len(results["Cash"]) >= 2
    /\ \E k \in 1..Len(results["Cash"]) :
          results["Cash"][k].Cumulative_Shares
              # results["Cash"][k].Total_Invested

(* C7: with positive prices, along every trajectory Cumulative_Shares and   *)
(* Total_Invested never decrease from a record to the next, and for a       *)
(* priced asset Cumulative_Shares grows wherever the later Shares > 0.      *)
C7_Monotone ==
    \A a \in DOMAIN results :
        (a \in PricedResults =>
            /\ a \in ObservedResults
            /\ \A d \in Observed(a) : FGt(Column(a)[d], Zero))
        => \A k \in 1..(Len(results[a]) - 1) :
              LET r == results[a][k]
                  n == results[a][k + 1]
              IN  /\ FGe(n.Cumulative_Shares, r.Cumulative_Shares)
                  /\ FGe(n.Total_Invested, r.Total_Invested)
                  /\ (a \in PricedResults /\ FGt(n.Shares, Zero))
                        => FGt(n.Cumulative_Shares, r.Cumulative_Shares)

(* C8: a run with twice the amount has records for the same period ends,    *)
(* and at each of them Total_Invested and Cumulative_Shares are exactly     *)
(* twice those of the run with the amount (a NaN of the one run being a NaN *)
(* of the other, an infinity an infinity).                                  *)
C8_LinearInAmount ==
    \A a \in DOMAIN results :
        LET A == results[a]
            B == calculate_dca(a, ASSET_MAPPINGS[a], data,
                               2 * investment_amount, frequency,
                               start_date, end_date)
        IN  /\ Len(B) = Len(A)
            /\ \A k \in 1..Len(A) :
                  /\ B[k].period_end = A[k].period_end
                  /\ B[k].Total_Invested = FMul(Num(2), A[k].Total_Invested)
                  /\ B[k].Cumulative_Shares
                        = FMul(Num(2), A[k].Cumulative_Shares)

C8_Witness ==
    \E a \in PricedResults :
        /\ Len(results[a]) >= 2
        /\ \A k \in 1..Len(results[a]) :
              /\ IsFinite(results[a][k].Cumulative_Shares)
              /\ FGt(results[a][k].Cumulative_Shares, Zero)
        /\ FGt(results[a][Len(results[a])].Total_Invested, Zero)

(* C9: the trajectory of a priced asset has exactly one record per cadence  *)
(* bucket holding an observation of the asset, and no record has a missing  *)
(* representative price.                                                    *)
C9_EmptyBucketsOmitted ==
    \A a \in ObservedResults :
        /\ Len(results[a])
              = Cardinality({Label(frequency, d) : d \in Observed(a)})
        /\ \A k \in 1..Len(results[a]) : ~IsNaN(results[a][k].Price)

(* C10: a period whose representative price is not positive is rejected:    *)
(* in a trajectory without missing prices every record has a positive price *)
(* and finite Shares, Cumulative_Shares and Portfolio_Value.                *)
C10_ZeroPriceRejected ==
    \A a \in PricedResults :
        (\A k \in 1..Len(results[a]) : ~IsNaN(results[a][k].Price))
        => \A k \in 1..Len(results[a]) :
              /\ FGt(results[a][k].Price, Zero)
              /\ IsFinite(results[a][k].Shares)
              /\ IsFinite(results[a][k].Cumulative_Shares)
              /\ IsFinite(results[a][k].Portfolio_Value)

====
